---- MODULE Spec2Model ----
(***************************************************************************)
(* Model of the channel operators of package channels: ToSlice, Take,      *)
(* TakeWhile, TakeUntil, Drop, DropWhile, DropUntil, Map, Filter,          *)
(* FilterMap and MapError, built on receiveLoop and trySend.               *)
(*                                                                         *)
(* A system is a generator goroutine writing the input channel, a chain of *)
(* operator goroutines, and up to three ToSlice calls: one on the last     *)
(* output, one on the error channel of MapError, and one that drains what  *)
(* is left of the input once the first has returned (after the operators   *)
(* that stop before the end of their input: Take, TakeWhile, TakeUntil).   *)
(* Go channels are                                                         *)
(* modelled with their buffer, capacity and closed flag; an unbuffered     *)
(* send completes only as a hand-off to a goroutine blocked in a receive.  *)
(* A select with several ready cases may take any of them.                 *)
(*                                                                         *)
(* The system state is one record, and every step is an operator on such   *)
(* records, so that the same schedule can drive two systems side by side:  *)
(* sys is the system under study and twin is the system obtained by        *)
(* replacing the operator by the one it is said to be equivalent to.       *)
(***************************************************************************)
EXTENDS Integers, Sequences, FiniteSets, TLC

VARIABLES sys, twin

vars == <<sys, twin>>

MaxLen == 3    \* longest input the generator produces
MaxN   == 2    \* largest count given to Take and Drop
MaxCap == 1    \* largest capacity of the input channel
IntBits == 4   \* width of int and uint, scaled down from 64

Vals == 1..MaxLen            \* the generator produces 1, 2, ..., k
Dom  == Vals                 \* domain of the user functions

Min(x, y) == IF x < y THEN x ELSE y

\* int and uint: the values of uint are 0 .. 2^IntBits - 1, those of int
\* -2^(IntBits-1) .. 2^(IntBits-1) - 1; int(n) keeps the bits of n, and the
\* arithmetic of int wraps around
Uints == 0..(2^IntBits - 1)
MaxInt == 2^(IntBits - 1) - 1
ToInt(n) == IF n > MaxInt THEN n - 2^IntBits ELSE n
WrapInt(x) == ((x + 2^(IntBits - 1)) % 2^IntBits) - 2^(IntBits - 1)

\* process identifiers: the generator, workers 1..Len(s.w), the ToSlice calls
Gen  == 0
Cons == 11     \* ToSlice on the last output channel
ErrC == 12     \* ToSlice on the error channel of MapError
Rest == 13     \* ToSlice on the input channel, called after Cons returned
Collectors == {Cons, ErrC, Rest}

\* contexts: the operators' context, the collectors' context, context.TODO()
Tokens == {"op", "col"}

(***************************************************************************)
(* Channels                                                                *)
(***************************************************************************)
NewChan(c) == [buf |-> <<>>, cap |-> c, closed |-> FALSE, nclose |-> 0]

(***************************************************************************)
(* User functions of the tests: doubling, a predicate given by the set of  *)
(* values it accepts, and a function failing on the values of a set.       *)
(***************************************************************************)
\* Every user function is a function on Dom yielding a record: out is the
\* value it returns, ok its boolean result, err its error (0 is nil).
NoFn == [v \in Dom |-> [out |-> v, ok |-> TRUE, err |-> 0]]
Double == [v \in Dom |-> [out |-> 2 * v, ok |-> TRUE, err |-> 0]]
Pred(P) == [v \in Dom |-> [out |-> v, ok |-> v \in P, err |-> 0]]
Not(f) == [v \in Dom |-> [f[v] EXCEPT !.ok = ~@]]
DoubleIf(P) == [v \in Dom |-> [out |-> 2 * v, ok |-> v \in P, err |-> 0]]
DoubleOrErr(P) == [v \in Dom |-> [out |-> IF v \in P THEN 0 ELSE 2 * v, ok |-> TRUE,
                                  err |-> IF v \in P THEN 0 - v ELSE 0]]

(***************************************************************************)
(* Operator goroutines.  pc is the place the goroutine is blocked at:      *)
(* "recv" in the select of receiveLoop, "send" in the select of trySend    *)
(* (val is the value, dst the channel), "close" before close(out),         *)
(* "close2" before close(errs), "done" after the goroutine returned.       *)
(* recvd, sent, esent, disc and lost record what the goroutine did with    *)
(* each value, and calls the values its function was called on; late tells *)
(* whether the context was already done when the goroutine came to the     *)
(* select it is blocked at.  f is the function the goroutine calls and     *)
(* given the one the caller passed (TakeUntil and DropUntil wrap it); when *)
(* byCall is set f is a closure that counts its calls, and f[i] is what    *)
(* its i-th call returns.                                                  *)
(***************************************************************************)
Worker(op, body, f, n, start) ==
    [op |-> op, body |-> body, f |-> f, given |-> f, byCall |-> FALSE, maxLen |-> n,
     pc |-> start, val |-> 0, dst |-> "out", length |-> 0, dropping |-> TRUE,
     late |-> FALSE, calls |-> <<>>,
     recvd |-> <<>>, sent |-> <<>>, esent |-> <<>>, disc |-> <<>>, lost |-> <<>>]

\* (variant: the goroutine enters the loop also when n = 0)
TakeAlwaysLoops(n) == Worker("Take", "Take", NoFn, n, "recv")

Take(n) ==
    Worker("Take", "Take", NoFn, ToInt(n), IF ToInt(n) = 0 THEN "close" ELSE "recv")

TakeWhile(f) == Worker("TakeWhile", "TakeWhile", f, 0, "recv")

\* (variant: the predicate is passed on as it is)
TakeUntilPlain(f) == [TakeWhile(f) EXCEPT !.op = "TakeUntil"]

TakeUntil(f) == [TakeWhile(Not(f)) EXCEPT !.op = "TakeUntil", !.given = f]

Drop(n) == Worker("Drop", "Drop", NoFn, ToInt(n), "recv")

DropWhile(f) == Worker("DropWhile", "DropWhile", f, 0, "recv")

\* (variant: the predicate is passed on as it is)
DropUntilPlain(f) == [DropWhile(f) EXCEPT !.op = "DropUntil"]

DropUntil(f) == [DropWhile(Not(f)) EXCEPT !.op = "DropUntil", !.given = f]

FilterMap(f) == Worker("FilterMap", "FilterMap", f, 0, "recv")

Map(g) == [FilterMap([v \in Dom |-> [g[v] EXCEPT !.ok = TRUE]]) EXCEPT !.op = "Map"]

Filter(predicate) == Worker("Filter", "Filter", predicate, 0, "recv")

MapError(f) == Worker("MapError", "MapError", f, 0, "recv")

\* (variant: Take makes its output with the capacity of its input)
OutCapOfInput(w, incap) == IF w.body = "Drop" THEN Min(w.maxLen, incap) ELSE incap

\* (variant: the operators other than Take and Drop make unbuffered outputs)
OutCapNone(w, incap) == IF w.body \in {"Take", "Drop"} THEN Min(w.maxLen, incap) ELSE 0

\* capacity of the output channel made by the operator
OutCap(w, incap) ==
    IF w.body \in {"Take", "Drop"} THEN Min(w.maxLen, incap) ELSE incap

\* trySend(ctx, ch, v) was called: block in its select
TrySend(w, dst, v) == [w EXCEPT !.pc = "send", !.dst = dst, !.val = v]

\* (variant: the loop goes on whatever the function returned)
ReturnLoops(w, loop) == [w EXCEPT !.pc = "recv"]

\* the function given to receiveLoop returned without sending
Return(w, loop) == [w EXCEPT !.pc = IF loop THEN "recv" ELSE "close"]

Discard(w, v) == [w EXCEPT !.disc = Append(@, v)]

\* (variant: the count is tested before the send, one too early)
TakeCallStopsEarly(w, v) ==
    IF w.length + 1 >= w.maxLen THEN Return(Discard(w, v), FALSE)
                                ELSE TrySend(w, "out", v)

\* the function given to receiveLoop, up to its call of trySend
TakeCall(w, v) == TrySend(w, "out", v)

\* (variant: the value that fails the predicate does not end the loop)
TakeWhileCallSkips(w, v) ==
    IF ~w.f[v].ok THEN Return(Discard(w, v), TRUE) ELSE TrySend(w, "out", v)

TakeWhileCall(w, v) ==
    IF ~w.f[v].ok THEN Return(Discard(w, v), FALSE) ELSE TrySend(w, "out", v)

\* (variant: the count is compared with maxLen, one value short)
DropCallOneShort(w, v) ==
    LET w1 == [w EXCEPT !.length = @ + 1]
    IN  IF w1.length < w1.maxLen
        THEN Return(Discard(w1, v), TRUE)
        ELSE TrySend(w1, "out", v)

DropCall(w, v) ==
    LET w1 == [w EXCEPT !.length = WrapInt(@ + 1)]
    IN  IF w1.length < WrapInt(w1.maxLen + 1)
        THEN Return(Discard(w1, v), TRUE)
        ELSE TrySend(w1, "out", v)

\* f(v) is called
Called(w, v) == [w EXCEPT !.calls = Append(@, v)]

\* what that call returns
Answer(w, v) == IF w.byCall THEN w.f[Len(w.calls) + 1] ELSE w.f[v]

\* (variant: f is called on every value, and decides for each)
DropWhileCallFilters(w, v) ==
    IF Answer(w, v).ok
    THEN Return(Discard(Called(w, v), v), TRUE)
    ELSE TrySend([Called(w, v) EXCEPT !.dropping = FALSE], "out", v)

\* (variant: the value that ends the dropping is dropped as well)
DropWhileCallLate(w, v) ==
    IF w.dropping
    THEN Return(Discard([Called(w, v) EXCEPT !.dropping = Answer(w, v).ok], v), TRUE)
    ELSE TrySend(w, "out", v)

\* dropping && f(v): f is not called once dropping is false
DropWhileCall(w, v) ==
    IF w.dropping
    THEN IF Answer(w, v).ok
         THEN Return(Discard(Called(w, v), v), TRUE)
         ELSE TrySend([Called(w, v) EXCEPT !.dropping = FALSE], "out", v)
    ELSE TrySend(w, "out", v)

\* (variant: a value that is not kept ends the loop)
FilterMapCallStops(w, v) ==
    IF w.f[v].ok THEN TrySend(w, "out", w.f[v].out) ELSE Return(Discard(w, v), FALSE)

FilterMapCall(w, v) ==
    IF w.f[v].ok THEN TrySend(w, "out", w.f[v].out) ELSE Return(Discard(w, v), TRUE)

\* (variant: the predicate is taken the wrong way round)
FilterCallInverted(w, v) ==
    IF ~w.f[v].ok THEN TrySend(w, "out", v) ELSE Return(Discard(w, v), TRUE)

FilterCall(w, v) ==
    IF w.f[v].ok THEN TrySend(w, "out", v) ELSE Return(Discard(w, v), TRUE)

\* (variant: the error is not looked at)
MapErrorCallNoErrs(w, v) == TrySend(w, "out", w.f[v].out)

MapErrorCall(w, v) ==
    IF w.f[v].err # 0 THEN TrySend(w, "errs", w.f[v].err)
                      ELSE TrySend(w, "out", w.f[v].out)

Call(w, v) ==
    CASE w.body = "Take"      -> TakeCall(w, v)
      [] w.body = "TakeWhile" -> TakeWhileCall(Called(w, v), v)
      [] w.body = "Drop"      -> DropCall(w, v)
      [] w.body = "DropWhile" -> DropWhileCall(w, v)
      [] w.body = "FilterMap" -> FilterMapCall(Called(w, v), v)
      [] w.body = "Filter"    -> FilterCall(Called(w, v), v)
      [] w.body = "MapError"  -> MapErrorCall(Called(w, v), v)

\* (variant: the loop goes on while length <= maxLen)
TakeSentOneMore(w) ==
    LET w1 == [w EXCEPT !.length = @ + 1]
    IN  Return(w1, w1.length <= w1.maxLen)

\* (variant: the count never ends the loop)
TakeSentGoesOn(w) == Return([w EXCEPT !.length = @ + 1], TRUE)

\* the function given to receiveLoop, after trySend returned true
TakeSent(w) ==
    LET w1 == [w EXCEPT !.length = @ + 1]
    IN  Return(w1, w1.length < w1.maxLen)

SentOk(w) ==
    LET w1 == IF w.dst = "errs" THEN [w EXCEPT !.esent = Append(@, w.val)]
                                ELSE [w EXCEPT !.sent = Append(@, w.val)]
    IN  IF w.body = "Take" THEN TakeSent(w1) ELSE Return(w1, TRUE)

\* (variant: a failed trySend does not end the loop)
SentFailGoesOn(w) == Return([w EXCEPT !.lost = Append(@, w.val)], TRUE)

\* (variant: after a failed trySend only the error channel is closed)
SentFailSkipsOut(w) == [w EXCEPT !.lost = Append(@, w.val), !.pc = "close2"]

\* ... and after trySend returned false: every operator leaves the loop
SentFail(w) == Return([w EXCEPT !.lost = Append(@, w.val)], FALSE)

\* receiveLoop received v from the input
Received(w, v) == Call([w EXCEPT !.recvd = Append(@, v)], v)

\* (variant: the loop variable is left true)
LoopEndGoesOn(w) == Return(w, TRUE)

\* receiveLoop found the input closed, or the context done
LoopEnd(w) == Return(w, FALSE)

\* (variant: close(errs) is forgotten)
ClosedOutOnly(w) == [w EXCEPT !.pc = "done"]

\* close(out), and close(errs) for MapError
Closed(w) ==
    [w EXCEPT !.pc = IF w.body = "MapError" /\ w.pc = "close" THEN "close2" ELSE "done"]

(***************************************************************************)
(* The system                                                              *)
(***************************************************************************)
NW(s) == Len(s.w)
InCh(i) == i               \* worker i reads channel i ...
OutCh(i) == i + 1          \* ... and writes channel i + 1
ErrCh(s, i) == NW(s) + 1 + i

ToSliceCall(in, tok, pc) == [in |-> in, tok |-> tok, pc |-> pc, result |-> <<>>]

Caps(ws, incap) ==
    LET c[i \in 1..(Len(ws) + 1)] ==
            IF i = 1 THEN incap ELSE OutCap(ws[i - 1], c[i - 1])
    IN  c

System(k, incap, ws) ==
    LET n == Len(ws)
        caps == Caps(ws, incap)
    IN  [gen  |-> [next |-> 1, k |-> k, pc |-> IF k = 0 THEN "close" ELSE "send"],
         ch   |-> [c \in 1..(2 * n + 1) |->
                      IF c <= n + 1 THEN NewChan(caps[c]) ELSE NewChan(0)],
         w    |-> ws,
         ts   |-> [p \in Collectors |->
                     CASE p = Cons -> ToSliceCall(n + 1, "col", "recv")
                       [] p = ErrC -> ToSliceCall(2 * n + 1, "col",
                                        IF n > 0 /\ ws[n].body = "MapError"
                                        THEN "recv" ELSE "off")
                       [] p = Rest -> ToSliceCall(1, "todo",
                                        IF n > 0 /\ ws[n].body \in {"Take", "TakeWhile"}
                                        THEN "recv" ELSE "off")],
         tok  |-> [t \in Tokens \cup {"todo"} |-> FALSE],
         panic |-> FALSE,
         diverged |-> FALSE]

IsWorker(s, p) == p \in 1..NW(s)

TokOf(s, p) == IF p \in Collectors THEN s.ts[p].tok ELSE "op"

\* the channel p is blocked receiving from, or 0
RecvWait(s, p) ==
    CASE IsWorker(s, p) -> IF s.w[p].pc = "recv" THEN InCh(p) ELSE 0
      [] p = Rest -> IF s.ts[p].pc = "recv" /\ s.ts[Cons].pc = "done"
                     THEN s.ts[p].in ELSE 0
      [] p \in {Cons, ErrC} -> IF s.ts[p].pc = "recv" THEN s.ts[p].in ELSE 0
      [] OTHER -> 0

\* the channel p is blocked sending to, or 0
SendWait(s, p) ==
    CASE p = Gen -> IF s.gen.pc = "send" THEN 1 ELSE 0
      [] IsWorker(s, p) -> IF s.w[p].pc # "send" THEN 0
                           ELSE IF s.w[p].dst = "errs" THEN ErrCh(s, p) ELSE OutCh(p)
      [] OTHER -> 0

SendVal(s, p) == IF p = Gen THEN s.gen.next ELSE s.w[p].val

\* (variant: an operator closes its input as well as its output)
CloseWaitInput(s, p) ==
    CASE p = Gen -> IF s.gen.pc = "close" THEN 1 ELSE 0
      [] IsWorker(s, p) -> IF s.w[p].pc = "close" THEN InCh(p)
                           ELSE IF s.w[p].pc = "close2" THEN ErrCh(s, p) ELSE 0
      [] OTHER -> 0

\* the channel p is about to close, or 0
CloseWait(s, p) ==
    CASE p = Gen -> IF s.gen.pc = "close" THEN 1 ELSE 0
      [] IsWorker(s, p) -> IF s.w[p].pc = "close" THEN OutCh(p)
                           ELSE IF s.w[p].pc = "close2" THEN ErrCh(s, p) ELSE 0
      [] OTHER -> 0

\* the generator sent its value: produce the next one, or stop
GenSent(g) ==
    [g EXCEPT !.next = @ + 1, !.pc = IF g.next + 1 > g.k THEN "close" ELSE "send"]

\* (variant: ToSlice puts the value in front)
CollectedInFront(t, v) == [t EXCEPT !.result = <<v>> \o @]

\* ToSlice: append and loop; return when the loop ends
Collected(t, v) == [t EXCEPT !.result = Append(@, v)]
\* (variant: ToSlice keeps looping)
ReturnedNot(t) == t
Returned(t) == [t EXCEPT !.pc = "done"]

\* the goroutine comes to its next select
Arrive(w, cancelled) == [w EXCEPT !.late = cancelled]

AfterSend(s, p) ==
    IF p = Gen THEN [s EXCEPT !.gen = GenSent(@)]
               ELSE [s EXCEPT !.w[p] = Arrive(SentOk(@), s.tok["op"])]

AfterRecv(s, q, v) ==
    IF q \in Collectors THEN [s EXCEPT !.ts[q] = Collected(@, v)]
                        ELSE [s EXCEPT !.w[q] = Arrive(Received(@, v), s.tok["op"])]

AfterLoopEnd(s, q) ==
    IF q \in Collectors THEN [s EXCEPT !.ts[q] = Returned(@)]
                        ELSE [s EXCEPT !.w[q] = LoopEnd(@)]

(***************************************************************************)
(* Steps.  Each step X has a guard CanX and an effect DoX on system        *)
(* records.                                                                *)
(***************************************************************************)
\* (variant: an unbuffered channel takes one value with no reader there)
CanSendLoose(s, p) ==
    LET c == SendWait(s, p)
    IN  c # 0 /\ (s.ch[c].closed \/ Len(s.ch[c].buf) < s.ch[c].cap
                    \/ (s.ch[c].cap = 0 /\ s.ch[c].buf = <<>>))

\* case ch <- v, into the buffer (a send on a closed channel panics)
CanSend(s, p) ==
    LET c == SendWait(s, p)
    IN  c # 0 /\ (s.ch[c].closed \/ Len(s.ch[c].buf) < s.ch[c].cap)

DoSend(s, p) ==
    LET c == SendWait(s, p)
    IN  IF s.ch[c].closed THEN [s EXCEPT !.panic = TRUE]
        ELSE AfterSend([s EXCEPT !.ch[c].buf = Append(@, SendVal(s, p))], p)

\* case v, ok := <-in, from the buffer
CanRecv(s, q) ==
    LET c == RecvWait(s, q)
    IN  c # 0 /\ Len(s.ch[c].buf) > 0

DoRecv(s, q) ==
    LET c == RecvWait(s, q)
    IN  AfterRecv([s EXCEPT !.ch[c].buf = Tail(@)], q, Head(s.ch[c].buf))

\* an unbuffered send meets a blocked receive
CanHandoff(s, p, q) ==
    LET c == SendWait(s, p)
    IN  c # 0 /\ c = RecvWait(s, q) /\ s.ch[c].cap = 0 /\ ~s.ch[c].closed

DoHandoff(s, p, q) == AfterRecv(AfterSend(s, p), q, SendVal(s, p))

\* (variant: a receive on a closed channel blocks)
CanRecvClosedNever(s, q) == FALSE

\* (variant: a closed channel reads as closed though it still holds values)
CanRecvClosedEarly(s, q) ==
    LET c == RecvWait(s, q)
    IN  c # 0 /\ s.ch[c].closed

\* case v, ok := <-in with ok = false: the channel is closed and drained
CanRecvClosed(s, q) ==
    LET c == RecvWait(s, q)
    IN  c # 0 /\ s.ch[c].closed /\ s.ch[c].buf = <<>>

DoRecvClosed(s, q) == AfterLoopEnd(s, q)

\* (variant: receiveLoop does not watch the context)
CanRecvDoneNever(s, q) == FALSE

\* case <-ctx.Done() in receiveLoop
CanRecvDone(s, q) == RecvWait(s, q) # 0 /\ s.tok[TokOf(s, q)]

DoRecvDone(s, q) == AfterLoopEnd(s, q)

\* (variant: trySend does not watch the context)
CanSendDoneNever(s, p) == FALSE

\* (variant: trySend gives up when the channel cannot take the value)
CanSendDoneFull(s, p) ==
    IsWorker(s, p) /\ SendWait(s, p) # 0 /\ (s.tok[TokOf(s, p)] \/ ~CanSend(s, p))

\* case <-ctx.Done() in trySend
CanSendDone(s, p) == IsWorker(s, p) /\ SendWait(s, p) # 0 /\ s.tok[TokOf(s, p)]

\* (variant: the value is enqueued although trySend returns false)
DoSendDoneEnqueues(s, p) ==
    [s EXCEPT !.w[p] = SentFail(@), !.ch[SendWait(s, p)].buf = Append(@, s.w[p].val)]

DoSendDone(s, p) == [s EXCEPT !.w[p] = SentFail(@)]

\* close(ch) (closing a closed channel panics)
CanClose(s, p) == CloseWait(s, p) # 0

DoClose(s, p) ==
    LET c == CloseWait(s, p)
        s1 == [s EXCEPT !.ch[c].closed = TRUE, !.ch[c].nclose = @ + 1,
                        !.panic = @ \/ s.ch[c].closed]
    IN  IF p = Gen THEN [s1 EXCEPT !.gen.pc = "done"]
                   ELSE [s1 EXCEPT !.w[p] = Closed(@)]

\* the context is cancelled (cancel() or its deadline)
CanCancel(s, t) == ~s.tok[t]

DoCancel(s, t) == [s EXCEPT !.tok[t] = TRUE]

(***************************************************************************)
(* Initial states: one operator between the generator and ToSlice          *)
(***************************************************************************)
\* the operators applied to an input of k values; a predicate is given by
\* the set of input values it holds of
Operators(k) ==
    {Take(n) : n \in 0..MaxN} \cup {Drop(n) : n \in 0..MaxN}
    \cup {TakeWhile(Pred(P)) : P \in SUBSET (1..k)}
    \cup {TakeUntil(Pred(P)) : P \in SUBSET (1..k)}
    \cup {DropWhile(Pred(P)) : P \in SUBSET (1..k)}
    \cup {DropUntil(Pred(P)) : P \in SUBSET (1..k)}
    \cup {Filter(Pred(P)) : P \in SUBSET (1..k)}
    \cup {FilterMap(DoubleIf(P)) : P \in SUBSET (1..k)}
    \cup {MapError(DoubleOrErr(P)) : P \in SUBSET (1..k)}
    \cup {Map(Double)}

\* a predicate that counts its calls and returns true for the first n
FirstCalls(n) == [i \in Dom |-> [out |-> i, ok |-> i <= n, err |-> 0]]

\* the operator an operator is said to be equivalent to
TwinOf(w) ==
    CASE w.op = "Filter" ->
            FilterMap([v \in Dom |-> [out |-> v, ok |-> w.f[v].ok, err |-> 0]])
      [] w.op = "Map" ->
            FilterMap([v \in Dom |-> [out |-> w.f[v].out, ok |-> TRUE, err |-> 0]])
      [] w.op = "TakeUntil" ->
            TakeWhile([v \in Dom |-> [out |-> v, ok |-> ~w.given[v].ok, err |-> 0]])
      [] w.op = "DropUntil" ->
            DropWhile([v \in Dom |-> [out |-> v, ok |-> ~w.given[v].ok, err |-> 0]])
      [] w.op = "Drop" -> [DropWhile(FirstCalls(w.maxLen)) EXCEPT !.byCall = TRUE]
      [] OTHER -> w

\* without such an operator there is no second system
NoTwin == [diverged |-> FALSE, none |-> TRUE]
HasTwin == "none" \notin DOMAIN twin

Systems(maxk) ==
    {<<System(k, incap, <<w>>),
       IF TwinOf(w) = w THEN NoTwin ELSE System(k, incap, <<TwinOf(w)>>)>> :
        <<k, incap, w>> \in {c \in (0..maxk) \X (0..MaxCap) \X Operators(maxk) :
                                c[3] \in Operators(c[1])}}

Init == \E c \in Systems(MaxLen) : sys = c[1] /\ twin = c[2]

\* the twin takes the same step when it can, and is marked otherwise
Along(can, next) ==
    IF ~HasTwin THEN twin
    ELSE IF can THEN next ELSE [twin EXCEPT !.diverged = TRUE]

Procs == {Gen} \cup 1..NW(sys) \cup Collectors

Send(p) ==
    /\ CanSend(sys, p)
    /\ sys' = DoSend(sys, p)
    /\ twin' = Along(CanSend(twin, p), DoSend(twin, p))

Recv(q) ==
    /\ CanRecv(sys, q)
    /\ sys' = DoRecv(sys, q)
    /\ twin' = Along(CanRecv(twin, q), DoRecv(twin, q))

Handoff(p, q) ==
    /\ CanHandoff(sys, p, q)
    /\ sys' = DoHandoff(sys, p, q)
    /\ twin' = Along(CanHandoff(twin, p, q), DoHandoff(twin, p, q))

RecvClosed(q) ==
    /\ CanRecvClosed(sys, q)
    /\ sys' = DoRecvClosed(sys, q)
    /\ twin' = Along(CanRecvClosed(twin, q), DoRecvClosed(twin, q))

RecvDone(q) ==
    /\ CanRecvDone(sys, q)
    /\ sys' = DoRecvDone(sys, q)
    /\ twin' = Along(CanRecvDone(twin, q), DoRecvDone(twin, q))

SendDone(p) ==
    /\ CanSendDone(sys, p)
    /\ sys' = DoSendDone(sys, p)
    /\ twin' = Along(CanSendDone(twin, p), DoSendDone(twin, p))

Close(p) ==
    /\ CanClose(sys, p)
    /\ sys' = DoClose(sys, p)
    /\ twin' = Along(CanClose(twin, p), DoClose(twin, p))

Cancel(t) ==
    /\ CanCancel(sys, t)
    /\ sys' = DoCancel(sys, t)
    /\ twin' = Along(CanCancel(twin, t), DoCancel(twin, t))

Next ==
    \/ \E p \in Procs : Send(p)
    \/ \E q \in Procs : Recv(q)
    \/ \E p, q \in Procs : Handoff(p, q)
    \/ \E q \in Procs : RecvClosed(q)
    \/ \E q \in Procs : RecvDone(q)
    \/ \E p \in Procs : SendDone(p)
    \/ \E p \in Procs : Close(p)
    \/ \E t \in Tokens : Cancel(t)

Spec == Init /\ [][Next]_vars

(***************************************************************************)
(* Liveness.  The Go scheduler runs a goroutine that can run, so while an  *)
(* operator goroutine or a ToSlice call has a step it can take, one of     *)
(* them takes a step.  (This is weaker than fairness to each goroutine and *)
(* to each ready ctx.Done() case, which the scheduler and the random       *)
(* choice of select also give; it is enough because every goroutine takes  *)
(* finitely many steps on a finite input.)  The generator and the          *)
(* cancellation are the environment: nothing forces them.  In the initial  *)
(* states the output may also have no reader at all.                       *)
(***************************************************************************)
MaxLive == 2   \* longest input under the fair specification

Scheduled == {1, Cons, ErrC}

Step(p) ==
    \/ Send(p)
    \/ Recv(p)
    \/ \E q \in {Gen} \cup Scheduled : Handoff(q, p) \/ Handoff(p, q)
    \/ RecvClosed(p)
    \/ RecvDone(p)
    \/ SendDone(p)
    \/ Close(p)

\* nobody reads the output; nobody drains the input afterwards, except after
\* Take(0), which is meant to leave the whole input to a later reader
Unread(s) == [s EXCEPT !.ts[Cons].pc = "off", !.ts[ErrC].pc = "off"]
Undrained(s) ==
    IF s.w[1].op = "Take" /\ s.w[1].maxLen = 0 THEN s
    ELSE [s EXCEPT !.ts[Rest].pc = "off"]

InitLive ==
    \E c \in Systems(MaxLive), reader \in BOOLEAN :
        /\ sys = Undrained(IF reader THEN c[1] ELSE Unread(c[1]))
        /\ twin = IF c[2] = NoTwin THEN c[2]
                  ELSE Undrained(IF reader THEN c[2] ELSE Unread(c[2]))

Fairness == WF_vars(\E p \in Scheduled : Step(p))

FairSpec == InitLive /\ [][Next]_vars /\ Fairness

(***************************************************************************)
(* Pipelines: ToSlice(Take(n, op(s))), as in TestMap and TestFilterMap.    *)
(* The source always offers its next value, but nothing makes it close its *)
(* channel; the operators and ToSlice run when they can.                   *)
(***************************************************************************)
Evens == {v \in Dom : v % 2 = 0}
PipeOps == {Map(Double), FilterMap(DoubleIf(Evens))}

InitPipe ==
    \E k \in 0..MaxLen, incap \in 0..MaxCap, n \in 1..MaxN :
        \E op \in PipeOps :
            /\ sys = [System(k, incap, <<op, Take(n)>>) EXCEPT !.ts[Rest].pc = "off"]
            /\ twin = NoTwin

PipeStep ==
    \/ Send(Gen)
    \/ \E p, q \in Procs : Handoff(p, q)
    \/ \E p \in 1..NW(sys) \cup {Cons} :
          Send(p) \/ Recv(p) \/ RecvClosed(p) \/ RecvDone(p) \/ SendDone(p) \/ Close(p)

PipeFairness == WF_vars(PipeStep)

PipeSpec == InitPipe /\ [][Next]_vars /\ PipeFairness

(***************************************************************************)
(* Chains of three operators that share one context:                       *)
(* Take(ctx, Map(ctx, Filter(ctx, s, odd), double), n), whose output       *)
(* nobody reads.  Take stops at the first value or has the largest count.  *)
(* Scheduling is that of the pipelines above.                              *)
(***************************************************************************)
Odds == {v \in Dom : v % 2 = 1}
ChainCaps == {0, 1}    \* an unbuffered and a buffered input

InitChain ==
    \E k \in 0..MaxLive, incap \in ChainCaps, n \in {1, MaxN} :
        /\ sys = Unread(Undrained(
                     System(k, incap, <<Filter(Pred(Odds)), Map(Double), Take(n)>>)))
        /\ twin = NoTwin

ChainSpec == InitChain /\ [][Next]_vars /\ PipeFairness

(***************************************************************************)
(* Two runs, one after the other: ToSlice(TakeWhile(f, s)) and, once it    *)
(* has returned, ToSlice(DropWhile(f, s')) on an identical copy s' of the  *)
(* input.  No context is cancelled.  sys is the first run, twin the        *)
(* second.                                                                 *)
(***************************************************************************)
InitCopy ==
    \E k \in 0..MaxLen, incap \in 0..MaxCap :
        \E P \in SUBSET (1..k) :
            /\ sys = [System(k, incap, <<TakeWhile(Pred(P))>>) EXCEPT !.ts[Rest].pc = "off"]
            /\ twin = System(k, incap, <<DropWhile(Pred(P))>>)

FirstRuns == sys.ts[Cons].pc # "done"

\* the run that is going on, and its next state
Running == IF FirstRuns THEN sys ELSE twin
Becomes(s) ==
    IF FirstRuns THEN sys' = s /\ twin' = twin
                 ELSE sys' = sys /\ twin' = s

CopySend(p) == CanSend(Running, p) /\ Becomes(DoSend(Running, p))
CopyRecv(q) == CanRecv(Running, q) /\ Becomes(DoRecv(Running, q))
CopyHandoff(p, q) == CanHandoff(Running, p, q) /\ Becomes(DoHandoff(Running, p, q))
CopyRecvClosed(q) == CanRecvClosed(Running, q) /\ Becomes(DoRecvClosed(Running, q))
CopyClose(p) == CanClose(Running, p) /\ Becomes(DoClose(Running, p))

NextCopy ==
    \/ \E p \in Procs : CopySend(p)
    \/ \E q \in Procs : CopyRecv(q)
    \/ \E p, q \in Procs : CopyHandoff(p, q)
    \/ \E q \in Procs : CopyRecvClosed(q)
    \/ \E p \in Procs : CopyClose(p)

CopySpec == InitCopy /\ [][NextCopy]_vars

(***************************************************************************)
(* Drop with every count of type uint.  A count above the largest int      *)
(* converts to a negative maxLen, and make panics on the negative size     *)
(* min(maxLen, cap(in)) before any goroutine of the operator is started:   *)
(* the program ends there.                                                 *)
(***************************************************************************)
MakePanics(s) == \E c \in DOMAIN s.ch : s.ch[c].cap < 0

Crashed(s) ==
    [s EXCEPT !.panic = TRUE,
              !.gen.pc = "off",
              !.w = [i \in 1..NW(s) |-> [s.w[i] EXCEPT !.pc = "off"]],
              !.ts = [p \in Collectors |-> [s.ts[p] EXCEPT !.pc = "off"]]]

InitWrap ==
    \E n \in Uints, k \in 0..MaxLen, incap \in 0..MaxCap :
        LET s == System(k, incap, <<Drop(n)>>)
        IN  /\ sys = IF MakePanics(s) THEN Crashed(s) ELSE s
            /\ twin = NoTwin

WrapSpec == InitWrap /\ [][Next]_vars

(***************************************************************************)
(* Properties                                                              *)
(***************************************************************************)
W == sys.w[1]
Out == sys.ch[OutCh(1)]
Errs == sys.ch[ErrCh(sys, 1)]
In == sys.ch[InCh(1)]
Result == sys.ts[Cons].result
Cancelled == sys.tok["op"]
NoCancel == ~sys.tok["op"] /\ ~sys.tok["col"]

\* the goroutine returned and every channel it made is closed
Exited ==
    /\ W.pc = "done"
    /\ Out.closed
    /\ W.body = "MapError" => Errs.closed

ConsDone == sys.ts[Cons].pc = "done"
HasReader == sys.ts[Cons].pc # "off"
Closing == {"close", "close2", "done"}

\* the first n values of the input
FirstN(n) == [i \in 1..n |-> i]
Input == FirstN(sys.gen.k)

\* C1: under every interleaving the goroutine closes each channel it made
\* exactly once on every way out of its loop: no channel is closed twice,
\* none is sent to after its close, none is closed while the goroutine is
\* still in its loop, and all are closed once the goroutine has returned.
C1_ClosedOnce ==
    /\ ~sys.panic
    /\ \A c \in DOMAIN sys.ch : sys.ch[c].nclose <= 1
    /\ W.pc \in {"recv", "send"} => ~Out.closed /\ ~Errs.closed
    /\ W.pc = "done" =>
          /\ Out.closed /\ Out.nclose = 1
          /\ W.body = "MapError" => Errs.closed /\ Errs.nclose = 1

C1_Witness ==
    /\ W.body = "MapError"
    /\ W.pc = "done"
    /\ W.lost # <<>>
    /\ Out.nclose = 1 /\ Errs.nclose = 1

\* C2: once the operator's context is cancelled, the goroutine eventually
\* returns with its output channels closed, whether or not the input is ever
\* closed and whether or not anybody reads the output; a ToSlice on the
\* output then returns, also when its own context is never cancelled.
C2_CancelTerminates == Cancelled ~> (Exited /\ (HasReader => ConsDone))

C2_Witness ==
    /\ Cancelled /\ ~sys.tok["col"]
    /\ Exited
    /\ sys.gen.pc # "done"
    /\ ConsDone

Histories(w) == <<w.recvd, w.sent, w.esent>>

\* C3 as stated: a goroutine that comes to a select after the context is
\* done completes no receive and no send there.
C3_Original ==
    [][W.late /\ W.pc \in {"recv", "send"} =>
          Histories(sys'.w[1]) = Histories(W)]_vars

\* C3 as amended: once the context is done its case is ready in every select
\* the goroutine blocks in, though another ready case may still be chosen;
\* once the goroutine has taken it, it completes no further receive or send;
\* and it eventually returns with the channels it made closed.
C3_CancelObserved ==
    /\ [](Cancelled /\ W.pc = "recv" => CanRecvDone(sys, 1))
    /\ [](Cancelled /\ W.pc = "send" => CanSendDone(sys, 1))
    /\ [][W.pc \in Closing =>
             /\ sys'.w[1].pc \in Closing
             /\ Histories(sys'.w[1]) = Histories(W)]_vars
    /\ (Cancelled /\ W.pc \in {"recv", "send"}) ~> Exited

C3_Witness ==
    /\ W.late
    /\ Exited
    /\ W.lost # <<>>
    /\ W.sent # <<>>

\* what the operator can make of the input value v
Outputs(v) == {v, W.f[v].out, W.f[v].err}

\* the collected values all come from the first j input values
FromFirst(j) == \A i \in 1..Len(Result) : \E v \in 1..j : Result[i] \in Outputs(v)

\* the number of values the input has produced
Produced == sys.gen.next - 1

\* C4: when a context is cancelled, ToSlice returns, whether the context is
\* its own or the operator's; its result never holds a value the input has
\* not produced, so when the input produces nothing after the cancellation
\* the result holds only values produced before it, and it is empty when
\* the input had produced nothing.
C4_CancelReturns ==
    /\ ((Cancelled \/ sys.tok["col"]) /\ HasReader) ~> ConsDone
    /\ [](FromFirst(Produced) /\ (Produced = 0 => Result = <<>>))

C4_Witness ==
    /\ Cancelled /\ ~sys.tok["col"]
    /\ ConsDone
    /\ sys.gen.pc = "send"
    /\ Produced = 1
    /\ Len(Result) = 1

InHand == IF W.pc = "send" THEN 1 ELSE 0

\* C5 as stated: every value the goroutine received is forwarded, is
\* discarded by the operator's rule, or is the one it is about to send.
C5_Original ==
    Len(W.recvd) = Len(W.sent) + Len(W.esent) + Len(W.disc) + InHand

\* C5 as amended: every value received is forwarded, discarded by the
\* operator's rule, about to be sent, or dropped by a failed trySend; the
\* last happens at most once, only when the context is done, and ends the
\* loop.
C5_NoSilentDrop ==
    /\ Len(W.recvd) = Len(W.sent) + Len(W.esent) + Len(W.disc) + InHand + Len(W.lost)
    /\ Len(W.lost) <= 1
    /\ W.lost # <<>> => Cancelled /\ W.pc \in Closing /\ W.lost = <<W.val>>

C5_Witness ==
    /\ W.lost # <<>>
    /\ W.sent # <<>>
    /\ W.disc # <<>>

\* the values f keeps among the input, transformed, in input order
Kept(f) ==
    LET kept == SelectSeq(Input, LAMBDA v : f[v].ok)
    IN  [i \in 1..Len(kept) |-> f[kept[i]].out]

Rejected(f) == SelectSeq(Input, LAMBDA v : ~f[v].ok)

\* C6: on a finite input that its producer closes, with no cancellation,
\* ToSlice of FilterMap(f) is the sequence of out for the values v with
\* f(v) = (out, true), in input order; the others are discarded and the loop
\* goes on; the output is closed.
C6_FilterMap ==
    (W.op = "FilterMap" /\ NoCancel /\ ConsDone) =>
        /\ Result = Kept(W.f)
        /\ W.disc = Rejected(W.f)
        /\ W.recvd = Input
        /\ Out.closed

C6_Witness ==
    /\ W.op = "FilterMap" /\ NoCancel /\ ConsDone
    /\ W.disc # <<>> /\ W.disc[1] = 1
    /\ Len(Result) >= 2

\* what can be observed of a system: channels, generator, collectors,
\* contexts, and the goroutine's place and history
Observed(s) ==
    <<s.ch, s.gen, s.ts, s.tok, s.panic,
      [i \in 1..NW(s) |-> <<s.w[i].pc, s.w[i].val, s.w[i].dst, s.w[i].recvd,
                            s.w[i].sent, s.w[i].disc, s.w[i].lost>>]>>

\* the steps a system can take
Steps(s) ==
    LET P == {Gen} \cup 1..NW(s) \cup Collectors
    IN  <<{p \in P : CanSend(s, p)}, {p \in P : CanRecv(s, p)},
          {pq \in P \X P : CanHandoff(s, pq[1], pq[2])},
          {p \in P : CanRecvClosed(s, p)}, {p \in P : CanRecvDone(s, p)},
          {p \in P : CanSendDone(s, p)}, {p \in P : CanClose(s, p)}>>

\* C7: Map(f) and FilterMap(v -> (f(v), true)), and Filter(p) and
\* FilterMap(v -> (v, p(v))), driven by the same schedule on the same input,
\* can always take the same steps and show the same channels, receives,
\* sends and results.
C7_SameAsFilterMap ==
    (W.op \in {"Map", "Filter"}) =>
        /\ HasTwin
        /\ twin.w[1].op = "FilterMap"
        /\ ~twin.diverged
        /\ Observed(sys) = Observed(twin)
        /\ Steps(sys) = Steps(twin)

C7_Witness ==
    /\ W.op = "Filter" /\ HasTwin
    /\ ConsDone
    /\ W.disc # <<>> /\ W.disc[1] = 1
    /\ Result # <<>>
    /\ twin.ts[Cons].result = Result

\* C8: with no cancellation ToSlice(Take(n, s)) is the first min(n, k)
\* values of the input, k being the number of values the input produces.
C8_TakePrefix ==
    (W.op = "Take" /\ NoCancel /\ ConsDone) =>
        Result = FirstN(Min(W.maxLen, sys.gen.k))

C8_Witness ==
    /\ W.op = "Take" /\ NoCancel /\ ConsDone
    /\ W.maxLen = 2 /\ sys.gen.k > 2
    /\ Result = <<1, 2>>

\* C9: in every state the Take(n) goroutine has sent at most n values and
\* has received at most n values, and its counter is the number of its
\* completed sends.
C9_TakeBound ==
    W.op = "Take" =>
        /\ Len(W.sent) <= W.maxLen
        /\ Len(W.recvd) <= W.maxLen
        /\ W.length = Len(W.sent)

C9_Witness ==
    /\ W.op = "Take"
    /\ W.maxLen > 0 /\ Len(W.sent) = W.maxLen
    /\ sys.gen.k > W.maxLen
    /\ Cancelled

\* C10: with no cancellation the result of ToSlice(Take(n, s)) followed by
\* what a ToSlice of the same input collects afterwards is the whole input:
\* Take received exactly the values it forwarded.
C10_TakeThenRest ==
    (W.op = "Take" /\ NoCancel /\ sys.ts[Rest].pc = "done") =>
        /\ Result \o sys.ts[Rest].result = Input
        /\ W.recvd = W.sent
        /\ W.recvd = Result

C10_Witness ==
    /\ W.op = "Take" /\ NoCancel /\ sys.ts[Rest].pc = "done"
    /\ W.maxLen > 0
    /\ Len(Result) = W.maxLen
    /\ sys.ts[Rest].result # <<>>

TakeZero == W.op = "Take" /\ W.maxLen = 0
Drained == sys.ts[Rest].result

\* C11: Take(0) never receives from its input and never sends, whatever the
\* input holds and whether or not the context is done; the only thing its
\* goroutine does is close the output, and it does so eventually; what a
\* later reader of the input collects starts with the first input value.
C11_TakeZero ==
    /\ [](TakeZero =>
            /\ W.recvd = <<>> /\ W.sent = <<>> /\ W.lost = <<>>
            /\ Result = <<>>
            /\ W.pc \in Closing
            /\ Drained = FirstN(Len(Drained))
            /\ sys.ts[Rest].pc = "done" => Drained = Input)
    /\ TakeZero ~> Out.closed

C11_Witness ==
    /\ TakeZero
    /\ Cancelled
    /\ Out.closed
    /\ Drained # <<>> /\ Drained[1] = 1

\* the Take at the end of a pipeline, and the operator before it
Taker == sys.w[NW(sys)]
TakerOut == sys.ch[OutCh(NW(sys))]
FirstOf(n, seq) == SubSeq(seq, 1, Min(n, Len(seq)))

\* C12: in ToSlice(Take(n, op(s))) with n > 0, Take leaves its loop as soon
\* as it has sent its n-th value, with its input still open and no context
\* done; when op(s) has at least n values and no context is ever done, the
\* output is eventually closed and ToSlice returns the first n values of
\* op(s), though the source is never made to close.
C12_TakeCloses ==
    /\ [](Len(Taker.sent) = Taker.maxLen => Taker.pc \in Closing)
    /\ [](ConsDone /\ NoCancel => Result = FirstOf(Taker.maxLen, Kept(W.f)))
    /\ (Len(Kept(W.f)) >= Taker.maxLen) ~>
          \/ ~NoCancel
          \/ /\ TakerOut.closed
             /\ ConsDone
             /\ Result = FirstOf(Taker.maxLen, Kept(W.f))

C12_Witness ==
    /\ NW(sys) = 2 /\ W.op = "FilterMap" /\ Taker.op = "Take"
    /\ NoCancel
    /\ ConsDone /\ TakerOut.closed
    /\ Len(Result) = Taker.maxLen
    /\ W.disc # <<>>
    /\ sys.gen.pc = "send"
    /\ ~In.closed

\* seq without its first n values
DropFirst(n, seq) == SubSeq(seq, Min(n, Len(seq)) + 1, Len(seq))

\* C13: with no cancellation and an input of k values that its producer
\* closes, ToSlice(Drop(n, s)) is the input without its first min(n, k)
\* values, in order: everything for n = 0, nothing for n >= k; the goroutine
\* received the whole input, discarded those first values, and closed its
\* output.
C13_DropSuffix ==
    (W.op = "Drop" /\ NoCancel /\ ConsDone) =>
        /\ Result = DropFirst(W.maxLen, Input)
        /\ W.maxLen = 0 => Result = Input
        /\ W.maxLen >= sys.gen.k => Result = <<>>
        /\ W.disc = FirstN(Min(W.maxLen, sys.gen.k))
        /\ W.recvd = Input
        /\ Out.closed /\ W.pc = "done"

C13_Witness ==
    /\ W.op = "Drop" /\ NoCancel /\ ConsDone
    /\ W.maxLen = 1 /\ sys.gen.k = 3
    /\ Result = <<2, 3>>
    /\ Out.closed

\* the place in the input of the first value f does not hold of (one past
\* the end when there is none), and the values before it
Stop(f) ==
    LET k == sys.gen.k
    IN  IF \E i \in 1..k : ~f[i].ok
        THEN CHOOSE i \in 1..k : ~f[i].ok /\ \A j \in 1..(i - 1) : f[j].ok
        ELSE k + 1
Before(f) == FirstN(Stop(f) - 1)
RestDone == sys.ts[Rest].pc = "done"

\* C14: TakeWhile(f) sends, in order, the values it receives as long as f
\* holds of them; the first value f is false of is received and discarded,
\* after which the goroutine never receives again and closes its output.
\* While it is the only reader of the input, these are the input values
\* before the first one f is false of; with no cancellation ToSlice
\* returns exactly those (nothing when f is false of the first value), and
\* a ToSlice of the same input called afterwards collects exactly the
\* values after the discarded one.
C14_TakeWhile ==
    W.op = "TakeWhile" =>
        /\ \A i \in 1..Len(W.sent) : W.f[W.sent[i]].ok
        /\ W.sent = SubSeq(W.recvd, 1, Len(W.sent))
        /\ W.disc # <<>> =>
              /\ Len(W.disc) = 1 /\ ~W.f[W.disc[1]].ok
              /\ W.pc \in Closing
              /\ W.recvd = W.sent \o W.disc
        /\ ~sys.tok["col"] =>
              /\ W.recvd = FirstN(Len(W.recvd))
              /\ Len(W.sent) < Stop(W.f)
              /\ W.disc \in {<<>>, <<Stop(W.f)>>}
        /\ (NoCancel /\ ConsDone) =>
              /\ Result = Before(W.f) /\ Out.closed
              /\ Stop(W.f) <= sys.gen.k => W.disc = <<Stop(W.f)>>
        /\ (ConsDone /\ Stop(W.f) = 1) => Result = <<>>
        /\ (NoCancel /\ RestDone) => Result \o W.disc \o Drained = Input

C14_Witness ==
    /\ W.op = "TakeWhile" /\ NoCancel /\ RestDone
    /\ Result = <<1>>
    /\ W.disc = <<2>>
    /\ Drained = <<3>>

\* the two systems cannot be told apart: same channels, same places and
\* histories, same possible steps
Lockstep ==
    /\ HasTwin
    /\ ~twin.diverged
    /\ Observed(sys) = Observed(twin)
    /\ Steps(sys) = Steps(twin)

\* C15: TakeUntil(f) and TakeWhile(not f), driven by the same schedule on
\* the same input, can always take the same steps and show the same
\* channels, receives, sends, discarded value, results and closes; the
\* values TakeUntil(f) sends are values f is false of, and the one it
\* discards is one f is true of.
C15_TakeUntil ==
    W.op = "TakeUntil" =>
        /\ Lockstep
        /\ twin.w[1].op = "TakeWhile"
        /\ \A v \in Dom : twin.w[1].f[v].ok = ~W.given[v].ok
        /\ \A i \in 1..Len(W.sent) : ~W.given[W.sent[i]].ok
        /\ \A i \in 1..Len(W.disc) : W.given[W.disc[i]].ok
        /\ Len(W.disc) <= 1

C15_Witness ==
    /\ W.op = "TakeUntil" /\ HasTwin
    /\ NoCancel /\ ConsDone
    /\ W.given[2].ok
    /\ W.disc = <<2>> /\ twin.w[1].disc = <<2>>
    /\ Result = <<1>> /\ twin.ts[Cons].result = <<1>>
    /\ Out.closed /\ twin.ch[OutCh(1)].closed

\* the values the goroutine gave to trySend
Forwarded == W.sent \o (IF W.pc = "send" THEN <<W.val>> ELSE <<>>) \o W.lost

\* C16: DropWhile(f) calls f on the values it receives, in order, and
\* discards them as long as f holds; the first value f is false of is given
\* to trySend, and so is every value received after it, without another
\* call of f, also when f would hold of it.  With no cancellation ToSlice
\* returns the input from that value on, and nothing when f holds of every
\* value.
C16_DropWhile ==
    W.op = "DropWhile" =>
        /\ W.recvd = FirstN(Len(W.recvd))
        /\ W.calls = SubSeq(W.recvd, 1, Len(W.calls))
        /\ W.disc = SubSeq(W.calls, 1, Len(W.disc))
        /\ \A i \in 1..Len(W.disc) : W.f[W.disc[i]].ok
        /\ W.dropping <=> W.calls = W.disc
        /\ ~W.dropping =>
              /\ W.calls = FirstN(Stop(W.f))
              /\ Len(W.calls) = Len(W.disc) + 1
              /\ ~W.f[W.calls[Len(W.calls)]].ok
              /\ W.recvd = W.disc \o Forwarded
        /\ (NoCancel /\ ConsDone) =>
              /\ Result = DropFirst(Stop(W.f) - 1, Input)
              /\ W.calls = FirstN(Min(Stop(W.f), sys.gen.k))
              /\ Out.closed
        /\ (ConsDone /\ Stop(W.f) > sys.gen.k) => Result = <<>>

C16_Witness ==
    /\ W.op = "DropWhile" /\ NoCancel /\ ConsDone
    /\ W.f[1].ok /\ ~W.f[2].ok /\ W.f[3].ok
    /\ W.calls = <<1, 2>>
    /\ W.disc = <<1>>
    /\ Result = <<2, 3>>

\* the place in the input of the first value f holds of (one past the end
\* when there is none)
FirstTrue(f) ==
    LET k == sys.gen.k
    IN  IF \E i \in 1..k : f[i].ok
        THEN CHOOSE i \in 1..k : f[i].ok /\ \A j \in 1..(i - 1) : ~f[j].ok
        ELSE k + 1

Second == twin.ts[Cons].result
BothDone == ConsDone /\ twin.ts[Cons].pc = "done"

\* C18: when ToSlice(TakeWhile(f, s)) and then ToSlice(DropWhile(f, s')) on
\* an identical copy s' of a finite input have returned, with no
\* cancellation, the two results concatenated are the input; DropWhile
\* discarded exactly the values TakeWhile forwarded, and the value
\* TakeWhile discarded is the first value DropWhile forwarded.
C18_TakeThenDrop ==
    BothDone =>
        /\ Result \o Second = Input
        /\ twin.w[1].disc = Result
        /\ W.disc = FirstOf(1, Second)
        /\ W.f = twin.w[1].f
        /\ W.op = "TakeWhile" /\ twin.w[1].op = "DropWhile"

C18_Witness ==
    /\ BothDone
    /\ Result = <<1>>
    /\ W.disc = <<2>>
    /\ Second = <<2, 3>>
    /\ W.f[3].ok

\* what the users of a system see of it: what each ToSlice collected and
\* whether it returned, which values the goroutine sent, and whether its
\* output is closed
Seen(s) ==
    <<[p \in Collectors |-> <<s.ts[p].pc, s.ts[p].result>>],
      s.w[1].sent, s.ch[OutCh(1)].closed>>

\* C19 as stated: Drop(n) and DropWhile driven by a predicate that counts
\* its calls and returns true for the first n, on the same input and with
\* the same cancellation and the same schedule, can always take the same
\* steps, send the same values, give ToSlice the same result and close
\* their outputs in the same states.
C19_Original ==
    W.op = "Drop" =>
        /\ HasTwin
        /\ twin.w[1].op = "DropWhile" /\ twin.w[1].byCall
        /\ ~twin.diverged
        /\ Seen(sys) = Seen(twin)
        /\ Steps(sys) = Steps(twin)

\* the values and the errors f makes of a sequence of input values
ValuesOf(f, seq) ==
    LET good == SelectSeq(seq, LAMBDA v : f[v].err = 0)
    IN  [i \in 1..Len(good) |-> f[good[i]].out]
ErrorsOf(f, seq) ==
    LET bad == SelectSeq(seq, LAMBDA v : f[v].err # 0)
    IN  [i \in 1..Len(bad) |-> f[bad[i]].err]

\* what the goroutine has given to trySend for the channel dst and not
\* sent: the value it is sending, or the value a failed trySend dropped
Pending(dst) ==
    IF (W.pc = "send" \/ W.lost # <<>>) /\ W.dst = dst THEN <<W.val>> ELSE <<>>

ErrResult == sys.ts[ErrC].result

\* C20: MapError gives every value it receives to exactly one trySend: the
\* error of f on the error channel when there is one, the value of f on
\* the value channel otherwise; it discards nothing.  Each channel carries
\* its items in input order, so the two ToSlice calls that read them
\* concurrently collect the values, respectively the errors, of a prefix of
\* the input, and of the whole input when no context is cancelled.
C20_MapError ==
    W.op = "MapError" =>
        /\ W.recvd = FirstN(Len(W.recvd))
        /\ W.sent \o Pending("out") = ValuesOf(W.f, W.recvd)
        /\ W.esent \o Pending("errs") = ErrorsOf(W.f, W.recvd)
        /\ W.disc = <<>>
        /\ Len(Pending("out")) + Len(Pending("errs")) <= 1
        /\ Result = FirstOf(Len(Result), ValuesOf(W.f, Input))
        /\ ErrResult = FirstOf(Len(ErrResult), ErrorsOf(W.f, Input))
        /\ (NoCancel /\ ConsDone /\ sys.ts[ErrC].pc = "done") =>
              /\ Result = ValuesOf(W.f, Input)
              /\ ErrResult = ErrorsOf(W.f, Input)

C20_Witness ==
    /\ W.op = "MapError" /\ NoCancel
    /\ ConsDone /\ sys.ts[ErrC].pc = "done"
    /\ sys.gen.k = 3
    /\ Result = <<2, 6>>
    /\ ErrResult = <<0 - 2>>

\* C21: MapError closes its value channel and its error channel together
\* on every way out of its loop (input closed, context done, failed
\* trySend): while the goroutine is in its loop neither is closed; close(out)
\* is directly followed by close(errs), so the error channel is never
\* closed before the value channel and the value channel is closed alone
\* only between the two closes; after the goroutine returned both are
\* closed, each exactly once.
C21_ClosedTogether ==
    W.op = "MapError" =>
        /\ ~sys.panic
        /\ Out.nclose <= 1 /\ Errs.nclose <= 1
        /\ W.pc \in {"recv", "send"} => ~Out.closed /\ ~Errs.closed
        /\ W.pc = "close" => ~Out.closed /\ ~Errs.closed
        /\ W.pc = "close2" <=> (Out.closed /\ ~Errs.closed)
        /\ W.pc = "done" <=> (Out.closed /\ Errs.closed)
        /\ W.pc = "done" => Out.nclose = 1 /\ Errs.nclose = 1

C21_Witness ==
    /\ W.op = "MapError" /\ NoCancel
    /\ W.pc = "done"
    /\ W.sent # <<>> /\ W.esent # <<>>
    /\ Out.closed /\ Errs.closed
    /\ Out.nclose = 1 /\ Errs.nclose = 1

\* C22: the output channel of Take(n) has capacity min(n, cap(in)), and in
\* every state it holds at most that many values.
C22_TakeCap ==
    W.op = "Take" =>
        /\ Out.cap = Min(W.maxLen, In.cap)
        /\ Len(Out.buf) <= Min(W.maxLen, In.cap)

C22_Witness ==
    /\ W.op = "Take" /\ W.maxLen = 2
    /\ In.cap = 1
    /\ Out.cap = 1 /\ Len(Out.buf) = 1
    /\ W.pc = "send"

\* C23 as stated: the output channel of Drop(n) has the capacity of its
\* input, for every n, so the goroutine is blocked in a send only when its
\* output holds as many values as the input can.
C23_Original ==
    W.op = "Drop" =>
        /\ Out.cap = In.cap
        /\ (W.pc = "send" /\ ~CanSend(sys, 1)) => Len(Out.buf) = In.cap

\* C24: TakeWhile, TakeUntil, DropWhile, DropUntil, Map, Filter and
\* FilterMap make their output with the capacity of their input, and so
\* does MapError for its value channel; the error channel of MapError has
\* capacity 0 and never holds a value: every error the goroutine has sent
\* was received in the same step by the reader of the error channel.
C24_Capacities ==
    /\ W.op \in {"TakeWhile", "TakeUntil", "DropWhile", "DropUntil",
                 "Map", "Filter", "FilterMap", "MapError"} =>
          /\ Out.cap = In.cap
          /\ Len(Out.buf) <= In.cap
    /\ W.op = "MapError" =>
          /\ Errs.cap = 0
          /\ Errs.buf = <<>>
          /\ W.esent = sys.ts[ErrC].result

C24_Witness ==
    /\ W.op = "MapError"
    /\ In.cap = 1 /\ Out.cap = 1 /\ Len(Out.buf) = 1
    /\ W.pc = "send" /\ W.dst = "errs"
    /\ W.esent # <<>>
    /\ Errs.buf = <<>>

\* the ToSlice call p has returned although its context is not done
Drains(p) == sys.ts[p].pc = "done" /\ ~sys.tok[sys.ts[p].tok]

\* C25: ToSlice returns only when its context is done or its input is
\* closed and empty; what it has collected is, in order, what it took off
\* its input: the values sent to the channel that the channel no longer
\* holds.  On an input of k values that its producer closes, with no
\* cancellation, it returns the whole input; it returns the empty slice
\* when it received nothing.
C25_ToSlice ==
    /\ \A p \in Collectors :
          Drains(p) => /\ sys.ch[sys.ts[p].in].closed
                       /\ sys.ch[sys.ts[p].in].buf = <<>>
    /\ W.sent = Result \o Out.buf
    /\ W.body = "MapError" => W.esent = ErrResult \o Errs.buf
    /\ ~sys.tok["col"] => FirstN(Produced) = W.recvd \o Drained \o In.buf
    /\ Drains(Cons) => Result = W.sent
    /\ (Drains(Rest) /\ W.recvd = <<>>) => Drained = Input
    /\ (ConsDone /\ W.sent = <<>>) => Result = <<>>

C25_Witness ==
    /\ TakeZero /\ NoCancel
    /\ Drains(Cons) /\ Result = <<>>
    /\ Drains(Rest) /\ Drained = <<1, 2, 3>>
    /\ In.closed

\* the step closes the channel c, or sends to it
Closes(c) == sys'.ch[c].nclose # sys.ch[c].nclose \/ sys'.ch[c].closed # sys.ch[c].closed
SendsTo(c) == Len(sys'.ch[c].buf) > Len(sys.ch[c].buf)

\* the step is the generator's close, the generator's send, a close of the
\* operator goroutine, a send of the operator goroutine
GenCloses == sys.gen.pc = "close" /\ sys'.gen.pc = "done"
GenSends == sys.gen.pc = "send" /\ sys'.gen.next = sys.gen.next + 1
WorkerCloses == W.pc \in {"close", "close2"} /\ sys'.w[1].pc \in {"close2", "done"}
WorkerSends == W.pc = "send" /\ Len(sys'.w[1].sent) + Len(sys'.w[1].esent)
                                  = Len(W.sent) + Len(W.esent) + 1

\* C26: no operator goroutine and no ToSlice call closes the channel it
\* reads or sends to it: the input of the operator is closed and written
\* only by the generator, and the channels ToSlice reads only by the
\* operator goroutine, also after the context is done and after an
\* operator has stopped before the end of its input.
C26_InputUntouched ==
    [][/\ Closes(InCh(1)) => GenCloses
       /\ SendsTo(InCh(1)) => GenSends
       /\ (Len(sys'.w[1].recvd) > Len(W.recvd) /\ In.buf = <<>>) => GenSends
       /\ Closes(OutCh(1)) \/ Closes(ErrCh(sys, 1)) => WorkerCloses
       /\ SendsTo(OutCh(1)) \/ SendsTo(ErrCh(sys, 1)) => WorkerSends
       /\ (sys.gen.pc = "done" /\ In.closed) => sys'.ch[InCh(1)].closed]_vars

C26_Witness ==
    /\ W.op = "TakeWhile"
    /\ Cancelled /\ sys.tok["col"]
    /\ Exited /\ ConsDone
    /\ W.disc # <<>>
    /\ ~In.closed /\ In.nclose = 0
    /\ sys.gen.pc = "send"

\* every goroutine of the chain has returned and every channel made by an
\* operator is closed
AllExited ==
    \A i \in 1..NW(sys) : sys.w[i].pc = "done" /\ sys.ch[OutCh(i)].closed

\* C27: in a chain of operators that share one context, once the context
\* is cancelled every goroutine eventually returns and every channel
\* between them and the last output are closed, whether a goroutine was
\* blocked in a receive or in a send, with the source left open and with or
\* without a reader of the last output.
C27_CancelChain == Cancelled ~> AllExited

C27_Witness ==
    /\ NW(sys) = 3
    /\ Cancelled /\ AllExited
    /\ ~HasReader
    /\ sys.gen.pc = "send" /\ ~In.closed
    /\ \E i \in 1..3 : sys.w[i].lost # <<>>
    /\ \E i \in 1..3 : sys.w[i].lost = <<>> /\ sys.w[i].sent # <<>>

\* what ToSlice(Take(n, op(s))) is to return
Composed == FirstOf(Taker.maxLen, Kept(W.f))

IsPrefix(a, b) == Len(a) <= Len(b) /\ a = SubSeq(b, 1, Len(a))

\* what the operator sends on its output when it runs to the end of the
\* input with no cancellation, computed from the input
Full ==
    CASE W.body = "Take"      -> FirstN(Min(W.maxLen, sys.gen.k))
      [] W.body = "Drop"      -> DropFirst(W.maxLen, Input)
      [] W.body = "TakeWhile" -> Before(W.f)
      [] W.body = "DropWhile" -> DropFirst(Stop(W.f) - 1, Input)
      [] W.body = "MapError"  -> ValuesOf(W.f, Input)
      [] OTHER                -> Kept(W.f)

\* C29: as long as the goroutine is the only reader of its input, in every
\* state, whenever the context is cancelled, what it has sent on its output
\* is a prefix of what it sends when it runs to the end without
\* cancellation, and so is what ToSlice has collected; a value dropped by a
\* failed trySend is the next value of that sequence, and nothing is sent
\* after it.  The same holds of the error channel of MapError.
C29_PrefixOrder ==
    Drained = <<>> =>
        /\ IsPrefix(W.sent \o Pending("out"), Full)
        /\ IsPrefix(Result, W.sent)
        /\ W.body = "MapError" =>
              /\ IsPrefix(W.esent \o Pending("errs"), ErrorsOf(W.f, Input))
              /\ IsPrefix(ErrResult, W.esent)
        /\ W.lost # <<>> => W.pc \in Closing /\ Len(W.lost) = 1
        /\ (NoCancel /\ ConsDone) => Result = Full

C29_Witness ==
    /\ W.op = "Filter" /\ Cancelled
    /\ W.disc # <<>>
    /\ W.lost # <<>> /\ W.sent # <<>>
    /\ ConsDone /\ Result = W.sent
    /\ Len(Result) < Len(Full)

\* C30 as stated (the documentation of DropWhile): DropWhile sends values
\* until f returns false; the first value f returns false of is discarded,
\* and after that call the goroutine leaves its loop to close the output,
\* with the input still open.
C30_Original ==
    W.op = "DropWhile" =>
        /\ \A i \in 1..Len(W.sent) : W.f[W.sent[i]].ok
        /\ \A i \in 1..Len(W.calls) :
              ~W.f[W.calls[i]].ok => /\ W.disc # <<>>
                                     /\ W.disc[Len(W.disc)] = W.calls[i]
                                     /\ W.pc \in Closing

\* C31 as stated (the documentation of Drop): the output of Drop(n) carries
\* at most n values of the input, and once the goroutine has sent n values
\* it leaves its loop to close the output, with the input still open.
C31_Original ==
    W.op = "Drop" =>
        /\ Len(W.sent) <= W.maxLen
        /\ Len(Result) <= W.maxLen
        /\ (W.maxLen > 0 /\ Len(W.sent) = W.maxLen) => W.pc \in Closing

\* the function given to receiveLoop has returned false
Stopped(w) ==
    \/ w.lost # <<>>
    \/ w.body = "Take" /\ w.maxLen > 0 /\ w.length >= w.maxLen
    \/ w.body = "TakeWhile" /\ w.disc # <<>>

\* the value the goroutine receives when it receives now
NextIn == IF In.buf # <<>> THEN Head(In.buf) ELSE sys.gen.next

\* the number of values the goroutine's function has dealt with
Handled(w) ==
    Len(w.sent) + Len(w.esent) + Len(w.disc) + Len(w.lost)
    + (IF w.pc = "send" THEN 1 ELSE 0)

\* C32: receiveLoop calls its function once on each value it receives, in
\* the order received, and on nothing else: a receive happens only in the
\* loop and hands the received value to the function, which discards it,
\* gives it to trySend or (for the operators that call the user's function
\* on every value) passes it to that function; when the input is closed or
\* the context done the loop ends without a call, so no zero value is ever
\* handled; and once the function has returned false the goroutine is out
\* of the loop and never receives again.
C32_ReceiveLoop ==
    /\ [](/\ \A i \in 1..Len(W.recvd) : W.recvd[i] \in 1..Produced
          /\ \A i \in 1..Len(W.calls) : W.calls[i] \in 1..Produced
          /\ Handled(W) = Len(W.recvd)
          /\ W.body \in {"TakeWhile", "Filter", "FilterMap", "MapError"} =>
                W.calls = W.recvd
          /\ Stopped(W) => W.pc \in Closing)
    /\ [][/\ sys'.w[1].recvd # W.recvd =>
                /\ W.pc = "recv"
                /\ RecvWait(sys, 1) = InCh(1)
                /\ sys'.w[1].recvd = Append(W.recvd, NextIn)
                /\ Handled(sys'.w[1]) = Handled(W) + 1
          /\ (W.pc = "recv" /\ sys'.w[1].pc # "recv" /\ sys'.w[1].recvd = W.recvd) =>
                /\ CanRecvClosed(sys, 1) \/ CanRecvDone(sys, 1)
                /\ sys'.w[1].pc = "close"
                /\ sys'.w[1].calls = W.calls
                /\ Handled(sys'.w[1]) = Handled(W)
          /\ W.pc \in Closing =>
                /\ sys'.w[1].pc \in Closing
                /\ sys'.w[1].recvd = W.recvd
                /\ sys'.w[1].calls = W.calls]_vars

C32_Witness ==
    /\ W.op = "TakeWhile" /\ NoCancel
    /\ Stopped(W) /\ W.pc = "done"
    /\ W.sent = <<1>> /\ W.disc = <<2>>
    /\ ~In.closed /\ In.buf = <<3>>

\* everything a channel of the goroutine has accepted, in order: what its
\* reader has collected and what it still holds
OutAll(s) == s.ts[Cons].result \o s.ch[OutCh(1)].buf
ErrAll(s) == s.ts[ErrC].result \o s.ch[ErrCh(s, 1)].buf

\* the channel trySend was called with, and the values sent to it
DstAll(s) == IF W.dst = "errs" THEN ErrAll(s) ELSE OutAll(s)
OtherAll(s) == IF W.dst = "errs" THEN OutAll(s) ELSE ErrAll(s)
SentTo(w) == IF W.dst = "errs" THEN w.esent ELSE w.sent

\* C33: trySend returns true exactly when the channel accepted the value,
\* and the value is then the last one the channel accepted, once: it was
\* appended to the buffer or handed to the blocked reader.  It returns
\* false only when the context is done, and the channel then holds what it
\* held, its reader has what it had, and the value is dropped.  Nothing
\* else puts a value on a channel of the goroutine.
C33_TrySend ==
    /\ [](/\ W.lost # <<>> => Cancelled
          /\ W.sent = OutAll(sys)
          /\ W.esent = ErrAll(sys))
    /\ [][/\ (W.pc = "send" /\ sys'.w[1] # W) =>
                \/ /\ SentTo(sys'.w[1]) = Append(SentTo(W), W.val)
                   /\ DstAll(sys') = Append(DstAll(sys), W.val)
                   /\ OtherAll(sys') = OtherAll(sys)
                   /\ sys'.w[1].lost = W.lost
                   /\ CanSend(sys, 1) \/ \E q \in Collectors : CanHandoff(sys, 1, q)
                \/ /\ sys'.w[1].lost = Append(W.lost, W.val)
                   /\ Cancelled
                   /\ sys'.ch = sys.ch /\ sys'.ts = sys.ts
                   /\ sys'.w[1].sent = W.sent /\ sys'.w[1].esent = W.esent
                   /\ sys'.w[1].pc = "close"
          /\ (OutAll(sys') # OutAll(sys) \/ ErrAll(sys') # ErrAll(sys)) =>
                W.pc = "send" /\ DstAll(sys') = Append(DstAll(sys), W.val)]_vars

C33_Witness ==
    /\ W.op = "Map" /\ Cancelled
    /\ W.sent = <<2>> /\ Out.buf = <<2>>
    /\ W.lost = <<4>>
    /\ W.pc \in Closing

\* the reasons a goroutine has to leave its loop: its input is closed and
\* empty, its context is done, its own count or predicate says stop
Exhausted == In.closed /\ In.buf = <<>>
StopEarly ==
    \/ W.body = "Take" /\ W.length = W.maxLen
    \/ W.body = "TakeWhile" /\ W.disc # <<>> /\ ~W.f[W.disc[1]].ok

\* C34: in every state in which the goroutine has left its loop, its input
\* is closed and empty, or its context is done, or its own condition says
\* stop (Take has sent n values, TakeWhile has met a value f is false of);
\* a trySend has failed only with the context done; and a goroutine whose
\* input is open, whose context is not done and whose condition does not
\* say stop is in its loop, receiving or sending.
C34_ExitReasons ==
    /\ W.pc \in Closing => Exhausted \/ Cancelled \/ StopEarly
    /\ W.lost # <<>> => Cancelled
    /\ (~In.closed /\ ~Cancelled /\ ~StopEarly) => W.pc \in {"recv", "send"}
    /\ (W.pc \in Closing /\ ~Cancelled /\ ~Exhausted) =>
          /\ W.body \in {"Take", "TakeWhile"}
          /\ W.lost = <<>>

C34_Witness ==
    /\ W.op = "Take" /\ W.maxLen = 2
    /\ NoCancel /\ ~In.closed /\ In.buf # <<>>
    /\ W.pc = "done"
    /\ StopEarly /\ W.sent = <<1, 2>>

\* C35: close(out) loses nothing: the close leaves in the channel what it
\* held, also after a cancellation, so in every state the values the
\* goroutine sent are, in order, those its reader has collected followed by
\* those the channel holds; a reader whose own context is not done can
\* still receive them from the closed channel, finds the channel closed
\* only when it has received them all, and returns all of them.
C35_CloseKeeps ==
    /\ [](/\ W.sent = Result \o Out.buf
          /\ W.esent = ErrResult \o Errs.buf
          /\ (Out.closed /\ Out.buf # <<>> /\ sys.ts[Cons].pc = "recv") =>
                CanRecv(sys, Cons) /\ ~CanRecvClosed(sys, Cons)
          /\ CanRecvClosed(sys, Cons) => Result = W.sent
          /\ CanRecvClosed(sys, ErrC) => ErrResult = W.esent
          /\ Drains(Cons) => Result = W.sent /\ Out.closed /\ Out.buf = <<>>
          /\ Drains(ErrC) => ErrResult = W.esent /\ Errs.closed)
    /\ [][/\ Closes(OutCh(1)) => sys'.ch[OutCh(1)].buf = Out.buf
          /\ (ConsDone /\ ~sys'.tok["col"]) => UNCHANGED sys.ts[Cons]]_vars

C35_Witness ==
    /\ Cancelled /\ ~sys.tok["col"]
    /\ W.pc = "done" /\ W.lost # <<>>
    /\ Out.closed /\ Out.buf # <<>>
    /\ Result # <<>>
    /\ sys.ts[Cons].pc = "recv"

\* the channel between the first operator and the next one
Mid == sys.ch[OutCh(1)]

\* the operator after the first has left its loop, and the first is blocked
\* sending to a channel that is full, with its context not done
Stuck ==
    /\ NW(sys) = 2 /\ Taker.pc \in Closing
    /\ W.pc = "send" /\ Len(Mid.buf) = Mid.cap /\ ~Mid.closed
    /\ ~Cancelled

\* C36: in Take(n, op(s)) the end of Take does not reach op: as long as its
\* context is not done, op leaves its loop only when its own input is closed
\* and empty, and its output stays open while it is in its loop; once Take
\* has left its loop and op is blocked sending to the full channel between
\* them, op stays there, with the same value, whatever the source and the
\* reader do (also when the source closes the input), until its context is
\* done.
C36_NoUpstreamStop ==
    /\ [](/\ W.pc \in Closing => Cancelled \/ Exhausted
          /\ (W.pc \in {"recv", "send"}) => ~Mid.closed
          /\ ~sys.panic)
    /\ [][Stuck => /\ sys'.w[1] = W
                   /\ sys'.ch[OutCh(1)] = Mid
                   /\ Stuck' \/ sys'.tok["op"]]_vars

C36_Witness ==
    /\ Stuck /\ NoCancel
    /\ W.op = "Map" /\ Taker.op = "Take"
    /\ Taker.pc = "done" /\ TakerOut.closed /\ ConsDone
    /\ Len(Result) = Taker.maxLen
    /\ sys.gen.pc = "send" /\ ~In.closed

\* the MapError goroutine is blocked sending an error
ErrWaits == W.op = "MapError" /\ W.pc = "send" /\ W.dst = "errs"

\* C37: the MapError goroutine deals with one input value at a time: when
\* it receives, every value it received before has been accepted by the
\* value channel or taken by the reader of the error channel.  While it is
\* blocked sending an error, which only a reader of the unbuffered error
\* channel can take, it receives nothing and the value channel accepts
\* nothing more; it leaves that send only by handing the error to the
\* reader or, with the context done, by dropping it and leaving the loop.
C37_OneAtATime ==
    /\ [](W.op = "MapError" =>
            /\ Len(W.recvd) <= Len(W.sent) + Len(W.esent) + 1
            /\ W.pc = "recv" => Len(W.recvd) = Len(W.sent) + Len(W.esent)
            /\ W.esent = ErrResult /\ Errs.buf = <<>>
            /\ ErrWaits =>
                  /\ RecvWait(sys, 1) = 0
                  /\ ~CanSend(sys, 1)
                  /\ W.sent = ValuesOf(W.f, SubSeq(W.recvd, 1, Len(W.recvd) - 1))
                  /\ W.val = W.f[W.recvd[Len(W.recvd)]].err)
    /\ [][ErrWaits =>
             /\ sys'.w[1].recvd = W.recvd
             /\ sys'.w[1].sent = W.sent
             /\ OutAll(sys') = OutAll(sys)
             /\ sys'.w[1] # W =>
                   \/ /\ CanHandoff(sys, 1, ErrC)
                      /\ sys'.w[1].esent = Append(W.esent, W.val)
                      /\ sys'.ts[ErrC].result = Append(ErrResult, W.val)
                   \/ /\ Cancelled
                      /\ sys'.w[1].lost = <<W.val>>
                      /\ sys'.w[1].pc = "close"]_vars

C37_Witness ==
    /\ ErrWaits /\ NoCancel
    /\ W.sent = <<2>> /\ Result = <<2>>
    /\ W.recvd = <<1, 2>>
    /\ In.buf = <<3>>
    /\ sys.ts[Cons].pc = "recv"
    /\ W.f[3].err = 0

\* the count given to Drop, of type uint
Count == W.maxLen % 2^IntBits

\* C38 as stated: for every count n of type uint, also the largest int and
\* the counts above it, Drop(n) discards the first n values it receives and
\* gives to trySend only values that come after them.
C38_Original ==
    W.op = "Drop" =>
        /\ W.recvd = FirstN(Len(W.recvd))
        /\ W.disc = FirstN(Min(Count, Len(W.recvd)))
        /\ \A i \in 1..Len(Forwarded) : Forwarded[i] > Count

====
